---- MODULE Spec2Model ----
(***************************************************************************)
(* Model of ducks/tableMetadata/api/v0.ts: the request functions of the    *)
(* table-metadata data-access layer.  A caller invokes the exported        *)
(* functions on one TableMetadata object; every invocation issues HTTP     *)
(* requests, the network settles each pending request (success with a      *)
(* response, failure with a transport error), and the promise reactions    *)
(* registered by the function run when its request settles.                *)
(***************************************************************************)
EXTENDS Integers, Sequences, FiniteSets, TLC

\* ------------------------------------------------------------- bounds
MaxCalls == 2      \* invocations of exported functions made by the caller
MaxItems == 2      \* length of updateArray
MaxPromises == 2   \* result promises handed to the caller over all invocations
NumColumns == 2    \* columns of the caller's tableData

\* ------------------------------------------------------------- JS values
Undefined == [undefined |-> TRUE]
Null == [null |-> TRUE]
EmptyObject == [empty |-> TRUE]
Num(n) == [number |-> n]   \* a number, kept comparable with null and undefined

Has(obj, f) == f \in DOMAIN obj

\* JavaScript truthiness of the values the model uses
Truthy(v) == v # Undefined /\ v # Null

\* ------------------------------------------------------------- domains
TableKey == "table_key"
Users == {"u1", "u2"}
Descriptions == {"d1", "d2"}
NewDescriptions == {"d1"}   \* the descriptions the caller writes
InitialDescription == "d0"

\* an item of updateArray (UpdateOwnerPayload): the owner id
Items == [id : Users]

RECURSIVE SeqsUpTo(_, _)
SeqsUpTo(S, n) ==
  IF n = 0 THEN {<<>>}
  ELSE LET shorter == SeqsUpTo(S, n - 1)
       IN shorter \cup {Append(s, x) : s \in {t \in shorter : Len(t) = n - 1}, x \in S}

UpdateArrays == SeqsUpTo(Items, MaxItems)

ColumnIndexes == 0 .. (NumColumns - 1)

\* ------------------------------------------------------------- responses
\* what the services may answer to each kind of request (2xx responses)
DescriptionResponses ==
  {[status |-> Num(200), data |-> [description |-> d, msg |-> "Success"]] : d \in Descriptions}

TableResponses ==
  {[status |-> s,
    data |-> [tableData |-> [key |-> TableKey, owners |-> o, tags |-> t],
              msg |-> "Success"]] :
     s \in {Num(200)}, o \in {<<>>, <<"u1">>}, t \in {<<"tag1">>}}

DashboardResponses ==
  {[status |-> Num(200), data |-> [dashboards |-> d]] : d \in {<<>>, <<"dash1">>}}

UserResponses(id) ==
  {[status |-> Num(200), data |-> [user |-> [user_id |-> id, is_active |-> a]]] :
     a \in BOOLEAN}

PlainResponses == {[status |-> Num(200), data |-> [msg |-> "Success"]]}

LastIndexedResponses ==
  {[status |-> Num(200), data |-> [timestamp |-> "ts1", msg |-> "Success"]]}

PreviewResponses ==
  {[status |-> Num(200), data |-> [previewData |-> [rows |-> "full"], msg |-> "Success"]]}

\* the response an AxiosError may carry (e.response): none at all (network
\* error), a response without a body, with a body lacking previewData, or
\* with a partial preview payload
ErrorResponses ==
  {Undefined,
   [status |-> Num(500), data |-> Null],
   [status |-> Num(500), data |-> [msg |-> "Error"]],
   [status |-> Num(400), data |-> [previewData |-> [rows |-> "partial"], msg |-> "Error"]]}


\* ------------------------------------------------------------- helpers
\* ./helpers is not part of the sources at hand: its functions are modelled
\* by what their callers rely on.
getTableQueryParams(tableKey) == [key |-> tableKey]

getRelatedDashboardSlug(tableKey) == tableKey

getTableDataFromResponseData(responseData, relatedDashboardsData) ==
  [key |-> responseData.tableData.key,
   dashboards |-> relatedDashboardsData.dashboards]

getTableOwnersFromResponseData(responseData) == responseData.tableData.owners

createOwnerUpdatePayload(item, tableKey) ==
  [method |-> "PUT", path |-> "/api/metadata/v0/update_table_owner",
   params |-> [key |-> tableKey, owner |-> item.id]]

createOwnerNotificationData(item, td) ==
  [recipients |-> <<item.id>>, resource_name |-> td.key]

shouldSendNotification(user) == user.is_active

\* ------------------------------------------------------------- state
VARIABLES
  tableData,   \* the caller's TableMetadata object, shared by the invocations
  calls        \* the invocations made so far, in call order

vars == <<tableData, calls>>

\* a request handed to axios: the result promise (chain) it belongs to, its
\* step in the function, its target, and how the network settled it
Request(chain, step, url) ==
  [chain |-> chain, step |-> step, url |-> url,
   state |-> "pending", response |-> Undefined]

PromisePending == [state |-> "pending", value |-> Undefined]
Resolved(v) == [state |-> "resolved", value |-> v]
Rejected(e) == [state |-> "rejected", value |-> e]

\* an invocation: its function and arguments, the requests it has issued in
\* issue order, and the result promises it returned (one, but for
\* generateOwnerUpdateRequests one per item)
NewCall(fn, columnIndex, updateArray, n) ==
  [fn |-> fn, columnIndex |-> columnIndex, updateArray |-> updateArray,
   notificationData |-> <<>>,
   log |-> <<>>, results |-> [i \in 1 .. n |-> PromisePending]]

\* axios(...) / axios.get / axios.put / axios.post: the request goes out
Issue(call, chain, step, url) ==
  [call EXCEPT !.log = Append(@, Request(chain, step, url))]

\* a promise settles once: later settlements are ignored
Settle(call, chain, outcome) ==
  [call EXCEPT !.results[chain] = IF @.state = "pending" THEN outcome ELSE @]

TheTableData == [ref |-> "tableData"]

Init ==
  /\ tableData = [key |-> TableKey,
                  description |-> InitialDescription,
                  columns |-> [i \in ColumnIndexes |->
                                 [name |-> <<"col", i>>, description |-> InitialDescription]]]
  /\ calls = <<>>

\* ------------------------------------------------------------- the functions
\* Each operator below is the synchronous part of an exported function: the
\* invocation record with the requests it issues before returning.

\* mutant: a third request is added to getTableData
getTableDataThreeRequests(tableKey) ==
  LET url == [method |-> "GET", path |-> "/api/metadata/v0/table",
              params |-> getTableQueryParams(tableKey)]
      c0 == NewCall("getTableData", 0, <<>>, 1)
      c1 == Issue(c0, 1, "dashboards", url)
      c2 == Issue(c1, 1, "table", url)
  IN Issue(c2, 1, "owners", url)

getTableData(tableKey) ==
  LET relatedDashboardsURL ==
        [method |-> "GET", path |-> "/api/metadata/v0/table/dashboards",
         params |-> [slug |-> getRelatedDashboardSlug(tableKey)]]
      tableURL ==
        [method |-> "GET", path |-> "/api/metadata/v0/table",
         params |-> getTableQueryParams(tableKey)]
      c0 == NewCall("getTableData", 0, <<>>, 1)
      c1 == Issue(c0, 1, "dashboards", relatedDashboardsURL)
  IN Issue(c1, 1, "table", tableURL)

getTableDescription(td) ==
  Issue(NewCall("getTableDescription", 0, <<>>, 1), 1, "description",
        [method |-> "GET", path |-> "/api/metadata/v0/get_table_description",
         params |-> getTableQueryParams(td.key)])

updateTableDescription(description, td) ==
  Issue(NewCall("updateTableDescription", 0, <<>>, 1), 1, "put",
        [method |-> "PUT", path |-> "/api/metadata/v0/put_table_description",
         params |-> [description |-> description, key |-> td.key, source |-> "user"]])

getTableOwners(tableKey) ==
  Issue(NewCall("getTableOwners", 0, <<>>, 1), 1, "table",
        [method |-> "GET", path |-> "/api/metadata/v0/table",
         params |-> getTableQueryParams(tableKey)])

\* updateArray.forEach: the owner-update request of every item goes out
\* during the call; notificationData is computed then and kept by the chain
RECURSIVE forEachItem(_, _, _, _)
forEachItem(call, updateArray, td, i) ==
  IF i > Len(updateArray) THEN call
  ELSE LET item == updateArray[i]
           updatePayload == createOwnerUpdatePayload(item, td.key)
           notificationData == createOwnerNotificationData(item, td)
           c1 == [call EXCEPT !.notificationData = Append(@, notificationData)]
       IN forEachItem(Issue(c1, i, "update", updatePayload), updateArray, td, i + 1)

generateOwnerUpdateRequests(updateArray, td) ==
  forEachItem(NewCall("generateOwnerUpdateRequests", 0, updateArray, Len(updateArray)),
              updateArray, td, 1)

getColumnDescription(columnIndex, td) ==
  LET columnName == td.columns[columnIndex].name
  IN Issue(NewCall("getColumnDescription", columnIndex, <<>>, 1), 1, "description",
           [method |-> "GET", path |-> "/api/metadata/v0/get_column_description",
            params |-> [key |-> td.key, column_name |-> columnName]])

updateColumnDescription(description, columnIndex, td) ==
  LET columnName == td.columns[columnIndex].name
  IN Issue(NewCall("updateColumnDescription", columnIndex, <<>>, 1), 1, "put",
           [method |-> "PUT", path |-> "/api/metadata/v0/put_column_description",
            params |-> [description |-> description, column_name |-> columnName,
                        key |-> td.key, source |-> "user"]])

getLastIndexed ==
  Issue(NewCall("getLastIndexed", 0, <<>>, 1), 1, "last_indexed",
        [method |-> "GET", path |-> "/api/metadata/v0/get_last_indexed",
         params |-> EmptyObject])

getPreviewData(queryParams) ==
  Issue(NewCall("getPreviewData", 0, <<>>, 1), 1, "preview",
        [method |-> "POST", path |-> "/api/preview/v0/", params |-> queryParams])

\* ------------------------------------------------------------- reactions
\* Each operator below is a promise reaction of a function: what runs when
\* request k of the invocation settles.  It yields the caller's tableData and
\* the invocation as the reaction leaves them (call.log[k] already holds the
\* outcome of the request).

Out(td, call) == [tableData |-> td, call |-> call]

ResponseOf(call, step) ==
  LET k == CHOOSE j \in DOMAIN call.log : call.log[j].step = step
  IN call.log[k].response

\* mutant: the rejection is replaced by a summary of the error
PropagateWrapped(td, call, k, e) ==
  Out(td, Settle(call, call.log[k].chain,
                 Rejected([data |-> EmptyObject, status |-> Null])))

\* a rejection met by no handler passes to the promise the function returned
Propagate(td, call, k, e) == Out(td, Settle(call, call.log[k].chain, Rejected(e)))

\* a request promise returned as it is: it resolves with the response
ReturnResponse(td, call, k, response) ==
  Out(td, Settle(call, call.log[k].chain, Resolved(response)))

\* mutant: the result resolves on the table response alone
getTableDataThenTableOnly(td, call, k, response) ==
  IF call.log[k].step = "table"
  THEN Out(td, Settle(call, 1, Resolved(
         [data |-> [key |-> response.data.tableData.key, dashboards |-> <<>>],
          owners |-> getTableOwnersFromResponseData(response.data),
          tags |-> response.data.tableData.tags,
          statusCode |-> response.status])))
  ELSE Out(td, call)

\* Promise.all([tableRequest, relatedDashboardsRequest]).then(...)
getTableDataThen(td, call, k, response) ==
  IF \A j \in DOMAIN call.log : call.log[j].state = "ok"
  THEN LET tableResponse == ResponseOf(call, "table")
           relatedDashboardsResponse == ResponseOf(call, "dashboards")
       IN Out(td, Settle(call, 1, Resolved(
            [data |-> getTableDataFromResponseData(tableResponse.data,
                                                   relatedDashboardsResponse.data),
             owners |-> getTableOwnersFromResponseData(tableResponse.data),
             tags |-> tableResponse.data.tableData.tags,
             statusCode |-> tableResponse.status])))
  ELSE Out(td, call)

\* Promise.all rejects with the first rejection among its requests
getTableDataRejected(td, call, k, e) == Out(td, Settle(call, 1, Rejected(e)))

\* mutant: a description already fetched is not overwritten
getTableDescriptionThenFirstWins(td, call, k, response) ==
  Out(IF td.description = InitialDescription
      THEN [td EXCEPT !.description = response.data.description]
      ELSE td,
      Settle(call, 1, Resolved(TheTableData)))

getTableDescriptionThen(td, call, k, response) ==
  Out([td EXCEPT !.description = response.data.description],
      Settle(call, 1, Resolved(TheTableData)))

getTableOwnersThen(td, call, k, response) ==
  Out(td, Settle(call, 1, Resolved(
        [owners |-> getTableOwnersFromResponseData(response.data)])))

\* .then((response) => axios.get(`/api/metadata/v0/user?user_id=${item.id}`))
ownerUpdateThenFetchUser(td, call, k, response) ==
  LET i == call.log[k].chain
      item == call.updateArray[i]
  IN Out(td, Issue(call, i, "user",
                   [method |-> "GET", path |-> "/api/metadata/v0/user",
                    params |-> [user_id |-> item.id]]))

\* mutant: the notification is sent whatever shouldSendNotification says
ownerUpdateThenNotifyAlways(td, call, k, response) ==
  LET i == call.log[k].chain
  IN Out(td, Issue(call, i, "notify",
                   [method |-> "POST", path |-> "/api/mail/v0/notification",
                    params |-> call.notificationData[i]]))

\* .then((response) => { if (shouldSendNotification(response.data.user)) ... })
ownerUpdateThenNotify(td, call, k, response) ==
  LET i == call.log[k].chain
  IN IF shouldSendNotification(response.data.user)
     THEN Out(td, Issue(call, i, "notify",
                        [method |-> "POST", path |-> "/api/mail/v0/notification",
                         params |-> call.notificationData[i]]))
     ELSE Out(td, Settle(call, i, Resolved(Undefined)))

\* the chain of an item: each step runs when the one before has succeeded
ownerUpdateChain(td, call, k, response) ==
  CASE call.log[k].step = "update" -> ownerUpdateThenFetchUser(td, call, k, response)
    [] call.log[k].step = "user" -> ownerUpdateThenNotify(td, call, k, response)
    [] call.log[k].step = "notify" -> ReturnResponse(td, call, k, response)

\* mutant: the user fetch is chained on the settlement of the owner update,
\* not on its success
ownerUpdateRejectedContinue(td, call, k, e) ==
  IF call.log[k].step = "update"
  THEN Out(td, Issue(Settle(call, call.log[k].chain, Rejected(e)),
                     call.log[k].chain, "user",
                     [method |-> "GET", path |-> "/api/metadata/v0/user",
                      params |-> [user_id |-> call.updateArray[call.log[k].chain].id]]))
  ELSE Propagate(td, call, k, e)

\* mutant: the chains are joined, so one failure rejects them all
ownerUpdateRejectedAll(td, call, k, e) ==
  Out(td, [call EXCEPT !.results =
             [i \in DOMAIN @ |-> IF @[i].state = "pending" THEN Rejected(e) ELSE @[i]]])

\* the chain registers no rejection handler
ownerUpdateRejected(td, call, k, e) == Propagate(td, call, k, e)

\* mutant: the description is written to every column
getColumnDescriptionThenAllColumns(td, call, k, response) ==
  Out([td EXCEPT !.columns =
         [i \in DOMAIN @ |-> [@[i] EXCEPT !.description = response.data.description]]],
      Settle(call, 1, Resolved(TheTableData)))

getColumnDescriptionThen(td, call, k, response) ==
  Out([td EXCEPT !.columns[call.columnIndex].description = response.data.description],
      Settle(call, 1, Resolved(TheTableData)))

getLastIndexedThen(td, call, k, response) ==
  Out(td, Settle(call, 1, Resolved([timestamp |-> response.data.timestamp])))

getPreviewDataThen(td, call, k, response) ==
  Out(td, Settle(call, 1, Resolved(
        [data |-> response.data.previewData, status |-> response.status])))

\* mutant: the status is always null
getPreviewDataCatchNullStatus(td, call, k, e) ==
  LET response == e.response
      data == IF /\ Truthy(response)
                 /\ Truthy(response.data)
                 /\ Has(response.data, "previewData")
              THEN response.data.previewData
              ELSE EmptyObject
  IN Out(td, Settle(call, 1, Rejected([data |-> data, status |-> Null])))

\* mutant: a failed preview request is sent once more
getPreviewDataCatchRetry(td, call, k, e) ==
  IF Len(call.log) < 2
  THEN Out(td, Issue(call, 1, "preview", call.log[k].url))
  ELSE Out(td, Settle(call, 1, Rejected([data |-> EmptyObject, status |-> Null])))

getPreviewDataCatch(td, call, k, e) ==
  LET response == e.response
      data == IF /\ Truthy(response)
                 /\ Truthy(response.data)
                 /\ Has(response.data, "previewData")
              THEN response.data.previewData
              ELSE EmptyObject
      status == IF Truthy(response) THEN response.status ELSE Null
  IN Out(td, Settle(call, 1, Rejected([data |-> data, status |-> status])))

onFulfilled(td, call, k, response) ==
  CASE call.fn = "getTableData" -> getTableDataThen(td, call, k, response)
    [] call.fn = "getTableDescription" -> getTableDescriptionThen(td, call, k, response)
    [] call.fn = "updateTableDescription" -> ReturnResponse(td, call, k, response)
    [] call.fn = "getTableOwners" -> getTableOwnersThen(td, call, k, response)
    [] call.fn = "generateOwnerUpdateRequests" -> ownerUpdateChain(td, call, k, response)
    [] call.fn = "getColumnDescription" -> getColumnDescriptionThen(td, call, k, response)
    [] call.fn = "updateColumnDescription" -> ReturnResponse(td, call, k, response)
    [] call.fn = "getLastIndexed" -> getLastIndexedThen(td, call, k, response)
    [] call.fn = "getPreviewData" -> getPreviewDataThen(td, call, k, response)

onRejected(td, call, k, e) ==
  CASE call.fn = "getTableData" -> getTableDataRejected(td, call, k, e)
    [] call.fn = "generateOwnerUpdateRequests" -> ownerUpdateRejected(td, call, k, e)
    [] call.fn = "getPreviewData" -> getPreviewDataCatch(td, call, k, e)
    [] OTHER -> Propagate(td, call, k, e)

\* ------------------------------------------------------------- the network
ResponsesFor(req) ==
  CASE req.step = "dashboards" -> DashboardResponses
    [] req.step = "table" -> TableResponses
    [] req.step = "description" -> DescriptionResponses
    [] req.step = "user" -> UserResponses(req.url.params.user_id)
    [] req.step = "last_indexed" -> LastIndexedResponses
    [] req.step = "preview" -> PreviewResponses
    [] OTHER -> PlainResponses

\* the responses a failed request may carry: only getPreviewData reads the
\* error, so the error responses are told apart for its request alone
ErrorResponsesFor(req) ==
  IF req.step = "preview" THEN ErrorResponses
  ELSE {[status |-> Num(500), data |-> Null]}

\* the transport error of request k: an AxiosError, with or without a response
AxiosError(k, response) == [isAxiosError |-> TRUE, request |-> k, response |-> response]

\* ------------------------------------------------------------- actions
PromiseCount ==
  LET RECURSIVE Sum(_)
      Sum(n) == IF n = 0 THEN 0 ELSE Len(calls[n].results) + Sum(n - 1)
  IN Sum(Len(calls))

Room(n) == Len(calls) < MaxCalls /\ PromiseCount + n <= MaxPromises

Invoke(call) == calls' = Append(calls, call) /\ UNCHANGED tableData

GetTableData == Room(1) /\ Invoke(getTableData(tableData.key))

GetTableDescription == Room(1) /\ Invoke(getTableDescription(tableData))

UpdateTableDescription ==
  Room(1) /\ \E d \in NewDescriptions : Invoke(updateTableDescription(d, tableData))

GetTableOwners == Room(1) /\ Invoke(getTableOwners(tableData.key))

GenerateOwnerUpdateRequests ==
  \E updateArray \in UpdateArrays :
    Room(Len(updateArray)) /\ Invoke(generateOwnerUpdateRequests(updateArray, tableData))

GetColumnDescription ==
  Room(1) /\ \E i \in ColumnIndexes : Invoke(getColumnDescription(i, tableData))

UpdateColumnDescription ==
  Room(1) /\ \E d \in NewDescriptions, i \in ColumnIndexes :
                Invoke(updateColumnDescription(d, i, tableData))

GetLastIndexed == Room(1) /\ Invoke(getLastIndexed)

GetPreviewData == Room(1) /\ Invoke(getPreviewData([database |-> "db"]))

\* request k of invocation c succeeds: its fulfilment reaction runs
Respond ==
  \E c \in DOMAIN calls : \E k \in DOMAIN calls[c].log :
    /\ calls[c].log[k].state = "pending"
    /\ \E response \in ResponsesFor(calls[c].log[k]) :
         LET call == [calls[c] EXCEPT !.log[k].state = "ok",
                                      !.log[k].response = response]
             out == onFulfilled(tableData, call, k, response)
         IN /\ tableData' = out.tableData
            /\ calls' = [calls EXCEPT ![c] = out.call]

\* request k of invocation c fails: its rejection reaction runs
Fail ==
  \E c \in DOMAIN calls : \E k \in DOMAIN calls[c].log :
    /\ calls[c].log[k].state = "pending"
    /\ \E response \in ErrorResponsesFor(calls[c].log[k]) :
         LET e == AxiosError(k, response)
             call == [calls[c] EXCEPT !.log[k].state = "failed",
                                      !.log[k].response = e]
             out == onRejected(tableData, call, k, e)
         IN /\ tableData' = out.tableData
            /\ calls' = [calls EXCEPT ![c] = out.call]

Next ==
  \/ GetTableData
  \/ GetTableDescription
  \/ UpdateTableDescription
  \/ GetTableOwners
  \/ GenerateOwnerUpdateRequests
  \/ GetColumnDescription
  \/ UpdateColumnDescription
  \/ GetLastIndexed
  \/ GetPreviewData
  \/ Respond
  \/ Fail

Spec == Init /\ [][Next]_vars

\* ------------------------------------------------------------- properties
CallsOf(fn) == {c \in DOMAIN calls : calls[c].fn = fn}

OwnerCalls == CallsOf("generateOwnerUpdateRequests")

Chains(call) == DOMAIN call.results

\* the requests of result promise i of an invocation, as positions of its log
RequestsOf(call, i) == {k \in DOMAIN call.log : call.log[k].chain = i}

StepsOf(call, i, step) == {k \in RequestsOf(call, i) : call.log[k].step = step}

FailedOf(call, i) == {k \in RequestsOf(call, i) : call.log[k].state = "failed"}

\* C1: in every owner-update chain the user fetch (for the item's id) is
\* issued only after the item's owner update has succeeded, the notification
\* only after the user fetch has succeeded and shouldSendNotification holds
\* for the fetched user; when it does not hold no notification is issued and
\* the chain resolves.
C1_ChainOrder ==
  \A c \in OwnerCalls : \A i \in Chains(calls[c]) :
    LET call == calls[c]
    IN /\ \A k \in StepsOf(call, i, "user") :
            /\ call.log[k].url.params.user_id = call.updateArray[i].id
            /\ \E j \in StepsOf(call, i, "update") : j < k /\ call.log[j].state = "ok"
       /\ \A k \in StepsOf(call, i, "notify") :
            \E j \in StepsOf(call, i, "user") :
              /\ j < k
              /\ call.log[j].state = "ok"
              /\ shouldSendNotification(call.log[j].response.data.user)
       /\ \A j \in StepsOf(call, i, "user") :
            (call.log[j].state = "ok"
               /\ ~shouldSendNotification(call.log[j].response.data.user))
            => /\ StepsOf(call, i, "notify") = {}
               /\ call.results[i] = Resolved(Undefined)

C1_Witness ==
  \E c \in OwnerCalls : \E i, j \in Chains(calls[c]) :
    /\ \E k \in StepsOf(calls[c], i, "notify") : calls[c].log[k].state = "ok"
    /\ calls[c].results[i].state = "resolved"
    /\ StepsOf(calls[c], j, "notify") = {}
    /\ calls[c].results[j] = Resolved(Undefined)

\* the payload and the status the error of a failed preview request carries
PreviewPayloadPresent(e) ==
  /\ e.response # Undefined
  /\ e.response.data # Null
  /\ "previewData" \in DOMAIN e.response.data

PreviewFailures ==
  {c \in CallsOf("getPreviewData") : calls[c].log[1].state = "failed"}

\* C2 as stated: when getPreviewData's request fails, the result carries the
\* partial preview payload of the error response if one is present, and
\* otherwise an empty data object and a null status.
C2_Original ==
  \A c \in PreviewFailures :
    LET e == calls[c].log[1].response
        result == calls[c].results[1]
    IN /\ result.state = "rejected"
       /\ IF PreviewPayloadPresent(e)
          THEN result.value.data = e.response.data.previewData
          ELSE result.value.data = EmptyObject /\ result.value.status = Null

\* C2 amended: when getPreviewData's request fails, the failure is caught and
\* the (rejected) result carries as data the partial preview payload of the
\* error response if one is present and an empty object otherwise; its status
\* is the status of the error response whenever the error carries a
\* response, and null only when the error carries no response.
C2_PreviewFailure ==
  \A c \in PreviewFailures :
    LET e == calls[c].log[1].response
        result == calls[c].results[1]
    IN /\ result.state = "rejected"
       /\ PreviewPayloadPresent(e) => result.value.data = e.response.data.previewData
       /\ ~PreviewPayloadPresent(e) => result.value.data = EmptyObject
       /\ e.response # Undefined => result.value.status = e.response.status
       /\ e.response = Undefined => result.value.status = Null

C2_Witness ==
  \E c \in PreviewFailures :
    /\ calls[c].results[1].state = "rejected"
    /\ calls[c].results[1].value.data = EmptyObject
    /\ calls[c].results[1].value.status # Null

\* C3 as stated: every exported function issues at most two network calls
\* per invocation (generateOwnerUpdateRequests: per returned chain).
C3_Original ==
  \A c \in DOMAIN calls :
    IF calls[c].fn = "generateOwnerUpdateRequests"
    THEN \A i \in Chains(calls[c]) : Cardinality(RequestsOf(calls[c], i)) <= 2
    ELSE Len(calls[c].log) <= 2

\* C3 amended: every exported function issues at most two network calls per
\* invocation, except generateOwnerUpdateRequests, each of whose chains
\* issues at most three (update owner, fetch user, notify).
C3_CallCount ==
  \A c \in DOMAIN calls :
    IF calls[c].fn = "generateOwnerUpdateRequests"
    THEN \A i \in Chains(calls[c]) : Cardinality(RequestsOf(calls[c], i)) <= 3
    ELSE Len(calls[c].log) <= 2

C3_Witness ==
  \E c \in OwnerCalls : \E i \in Chains(calls[c]) :
    /\ Cardinality(RequestsOf(calls[c], i)) = 3
    /\ calls[c].results[i].state = "resolved"

\* C4: getTableData has issued both its requests (related dashboards, table)
\* before either response is received; its result resolves only after both
\* have succeeded, and does so once both have, in either completion order;
\* the value is built from both responses with statusCode, owners and tags
\* taken from the table response.
C4_TableData ==
  \A c \in CallsOf("getTableData") :
    LET call == calls[c]
        bothOk == \A k \in DOMAIN call.log : call.log[k].state = "ok"
    IN /\ Len(call.log) = 2
       /\ {call.log[k].step : k \in DOMAIN call.log} = {"dashboards", "table"}
       /\ call.results[1].state = "resolved" <=> bothOk
       /\ bothOk =>
            LET t == ResponseOf(call, "table")
                d == ResponseOf(call, "dashboards")
                v == call.results[1].value
            IN /\ v.statusCode = t.status
               /\ v.owners = getTableOwnersFromResponseData(t.data)
               /\ v.tags = t.data.tableData.tags
               /\ v.data = getTableDataFromResponseData(t.data, d.data)

\* one invocation has resolved, and another has its table response but not
\* yet its dashboards response and is still pending
C4_Witness ==
  \E c1, c2 \in CallsOf("getTableData") :
    /\ calls[c1].results[1].state = "resolved"
    /\ calls[c1].results[1].value.owners = <<"u1">>
    /\ \E k, j \in DOMAIN calls[c2].log :
         /\ calls[c2].log[k].step = "table" /\ calls[c2].log[k].state = "ok"
         /\ calls[c2].log[j].step = "dashboards" /\ calls[c2].log[j].state = "pending"
    /\ calls[c2].results[1].state = "pending"

PropagatingCalls == DOMAIN calls \ CallsOf("getPreviewData")

\* C5: for every function but getPreviewData, a failed request rejects the
\* caller's result with exactly the transport error of a request that
\* failed, unchanged; the result is rejected for no other reason and does
\* not resolve with a value.
C5_ErrorPropagates ==
  \A c \in PropagatingCalls : \A i \in Chains(calls[c]) :
    LET call == calls[c]
        failed == FailedOf(call, i)
    IN /\ failed # {} =>
            /\ call.results[i].state = "rejected"
            /\ \E k \in failed :
                 /\ call.results[i].value = call.log[k].response
                 /\ call.results[i].value.request = k
       /\ call.results[i].state = "rejected" => failed # {}

C5_Witness ==
  /\ \E c \in CallsOf("getTableData") :
       /\ FailedOf(calls[c], 1) # {}
       /\ \E k \in DOMAIN calls[c].log : calls[c].log[k].state = "ok"
       /\ calls[c].results[1].state = "rejected"
  /\ \E c \in OwnerCalls : \E i \in Chains(calls[c]) :
       /\ \E k \in StepsOf(calls[c], i, "user") : calls[c].log[k].state = "failed"
       /\ calls[c].results[i].state = "rejected"

\* C6: in an owner-update chain a failed step stops the chain: after a failed
\* owner update neither the user fetch nor the notification is issued, after
\* a failed user fetch no notification is issued, and the chain is rejected.
C6_FailureStopsChain ==
  \A c \in OwnerCalls : \A i \in Chains(calls[c]) :
    LET call == calls[c]
    IN /\ (\E k \in StepsOf(call, i, "update") : call.log[k].state = "failed")
            => /\ StepsOf(call, i, "user") = {}
               /\ StepsOf(call, i, "notify") = {}
               /\ call.results[i].state = "rejected"
       /\ (\E k \in StepsOf(call, i, "user") : call.log[k].state = "failed")
            => /\ StepsOf(call, i, "notify") = {}
               /\ call.results[i].state = "rejected"

C6_Witness ==
  \E c \in OwnerCalls : \E i, j \in Chains(calls[c]) :
    /\ \E k \in StepsOf(calls[c], i, "update") : calls[c].log[k].state = "failed"
    /\ \E k \in StepsOf(calls[c], j, "user") : calls[c].log[k].state = "failed"

\* C7: no request is retried: within an invocation each request (a step of a
\* result promise's chain) is issued at most once, also after it or a
\* sibling request has failed.
C7_NoRetry ==
  \A c \in DOMAIN calls : \A k, j \in DOMAIN calls[c].log :
    (calls[c].log[k].chain = calls[c].log[j].chain
       /\ calls[c].log[k].step = calls[c].log[j].step) => k = j

C7_Witness ==
  /\ \E c \in PreviewFailures : Len(calls[c].log) = 1
  /\ \E c \in CallsOf("getTableData") :
       /\ FailedOf(calls[c], 1) # {}
       /\ Len(calls[c].log) = 2

\* C8: generateOwnerUpdateRequests returns one chain per item of updateArray,
\* in its order (none, and no request, for an empty array); the owner-update
\* requests of all items are issued before any user fetch; a chain is
\* rejected only by a failure of its own requests, and goes on to its next
\* step whenever its own step has succeeded, whatever the other chains do.
C8_ChainsIndependent ==
  \A c \in OwnerCalls :
    LET call == calls[c]
        n == Len(call.updateArray)
    IN /\ Chains(call) = 1 .. n
       /\ Len(call.log) >= n
       /\ \A k \in DOMAIN call.log :
            IF k <= n
            THEN /\ call.log[k].step = "update"
                 /\ call.log[k].chain = k
                 /\ call.log[k].url.params.owner = call.updateArray[k].id
            ELSE call.log[k].step # "update" /\ call.log[k].chain \in 1 .. n
       /\ \A i \in Chains(call) :
            /\ call.results[i].state = "rejected" => FailedOf(call, i) # {}
            /\ call.log[i].state = "ok" => StepsOf(call, i, "user") # {}
            /\ \A k \in StepsOf(call, i, "user") :
                 (call.log[k].state = "ok"
                    /\ shouldSendNotification(call.log[k].response.data.user))
                 => StepsOf(call, i, "notify") # {}
            /\ \A k \in StepsOf(call, i, "notify") :
                 call.log[k].state = "ok" => call.results[i].state = "resolved"

C8_Witness ==
  /\ \E c \in OwnerCalls : Len(calls[c].updateArray) = 0 /\ calls[c].log = <<>>
  /\ \E c \in OwnerCalls :
       /\ Len(calls[c].updateArray) = 2
       /\ calls[c].updateArray[1] # calls[c].updateArray[2]
       /\ calls[c].results[1].state = "rejected"
       /\ calls[c].results[2].state = "resolved"
       /\ StepsOf(calls[c], 2, "notify") # {}

\* request k of invocation c receives its successful response in this step
Succeeds(c, k) ==
  /\ calls[c].log[k].state = "pending"
  /\ calls'[c].log[k].state = "ok"

DescriptionOf(c, k) == calls'[c].log[k].response.data.description

\* C9: tableData changes only in a step in which the request of a
\* getTableDescription or getColumnDescription invocation succeeds, and then
\* only in one field: the table's description, or the description of the
\* column at columnIndex, which takes the description of the response; a
\* call, a failure or any other response leaves tableData as it is.
C9_Frame ==
  [][tableData' # tableData =>
       \E c \in DOMAIN calls : \E k \in DOMAIN calls[c].log :
         /\ Succeeds(c, k)
         /\ \/ /\ calls[c].fn = "getTableDescription"
               /\ tableData' = [tableData EXCEPT !.description = DescriptionOf(c, k)]
            \/ /\ calls[c].fn = "getColumnDescription"
               /\ tableData' =
                    [tableData EXCEPT
                       !.columns[calls[c].columnIndex].description = DescriptionOf(c, k)]]_vars

C9_Witness ==
  /\ \E c \in CallsOf("getColumnDescription") :
       /\ calls[c].columnIndex = 1
       /\ calls[c].results[1].state = "resolved"
       /\ tableData.columns[1].description = calls[c].log[1].response.data.description
  /\ \E c \in CallsOf("getTableDescription") : calls[c].results[1].state = "rejected"
  /\ tableData.columns[0].description = InitialDescription
  /\ tableData.description = InitialDescription

\* the invocations of fn on the same field (columnIndex is 0 for getTableDescription)
SameField(fn, idx) == {c \in CallsOf(fn) : calls[c].columnIndex = idx}

LastCall(S) == CHOOSE c \in S : \A d \in S : d <= c

AllSucceeded(S) == \A c \in S : calls[c].log[1].state = "ok"

\* C10 as stated: once all the getTableDescription calls (or the
\* getColumnDescription calls for one columnIndex) in flight on tableData
\* have succeeded, the description left is the one of the call made last.
C10_Original ==
  /\ LET S == SameField("getTableDescription", 0)
     IN (Cardinality(S) >= 2 /\ AllSucceeded(S))
        => tableData.description = calls[LastCall(S)].log[1].response.data.description
  /\ \A idx \in ColumnIndexes :
       LET S == SameField("getColumnDescription", idx)
       IN (Cardinality(S) >= 2 /\ AllSucceeded(S))
          => tableData.columns[idx].description
               = calls[LastCall(S)].log[1].response.data.description

\* C10 amended: every response of a getTableDescription (getColumnDescription)
\* call overwrites the description on arrival, whatever other calls are in
\* flight or have succeeded, so the description left after both succeed is
\* the one of the response that arrived last, not of the call made last.
C10_LastResponseWins ==
  [][\A c \in DOMAIN calls : \A k \in DOMAIN calls[c].log :
       Succeeds(c, k) =>
         /\ calls[c].fn = "getTableDescription"
              => tableData'.description = DescriptionOf(c, k)
         /\ calls[c].fn = "getColumnDescription"
              => tableData'.columns[calls[c].columnIndex].description = DescriptionOf(c, k)]_vars

\* both calls have succeeded and the description left is the one of the
\* first call, whose response arrived last
C10_Witness ==
  \E c1, c2 \in SameField("getTableDescription", 0) :
    /\ c1 < c2
    /\ AllSucceeded({c1, c2})
    /\ calls[c1].log[1].response # calls[c2].log[1].response
    /\ tableData.description = calls[c1].log[1].response.data.description

====
